---------------------------- MODULE Spec2Model ----------------------------
(***************************************************************************)
(* Model of src/task1_enrich.py: the enrichment run (main) over a CSV      *)
(* table, its identifier generator (next_id) and its field corrector       *)
(* (fix_collector_fields).                                                 *)
(*                                                                         *)
(* A text is a sequence of characters; a character is a one-character      *)
(* string, except "LF" (a line feed) and "U0663" (ARABIC-INDIC DIGIT       *)
(* THREE, a decimal digit that is not ASCII).  Indicator codes, record     *)
(* types and column names are opaque words: texts of one token.  A cell of *)
(* the in-memory table is a text or NA (pandas' missing value); a cell of  *)
(* a CSV file is a text, the empty text standing for a missing value.      *)
(*                                                                         *)
(* Domain: the cells of the input are texts that pandas.read_csv keeps as  *)
(* texts.  A column whose every value is a number is re-typed by read_csv  *)
(* and is not modelled.  astype(str) and str() render a missing value as   *)
(* "nan", as pandas 1.x and 2.x do.                                        *)
(***************************************************************************)
EXTENDS Integers, Sequences, FiniteSets, TLC

VARIABLES
    pc,                 \* position of the run in main, or of the pure-function harness
    raw,                \* the file at RAW_PATH
    outFile,            \* the file at OUT_PATH
    out0,               \* the file at OUT_PATH when the run started (history)
    outDir,             \* whether data/processed exists
    cols,               \* main's cols: the columns of the table as read
    df,                 \* main's df: [columns, rows]
    event_code_to_id,   \* main's lookup: set of <<indicator_code, record_id>> (a dict)
    existing_link_keys, \* main's de-duplication set
    li,                 \* number of maybe_add_link calls made by this run
    exitCode,           \* main's return value; -1 while running
    run,                \* 1: the run on the input; 2: the run on run 1's output
    log,                \* what this run did: a sequence of records (history)
    firstRun,           \* what run 1 left behind (history)
    ids,                \* next_id harness: existing_ids
    prefix,             \* next_id harness: prefix
    result              \* next_id harness: the value returned

vars == <<pc, raw, outFile, out0, outDir, cols, df, event_code_to_id, existing_link_keys,
          li, exitCode, run, log, firstRun, ids, prefix, result>>

mainVars == <<raw, outFile, out0, outDir, cols, df, event_code_to_id, existing_link_keys,
              exitCode, run, log, firstRun>>

idVars == <<ids, prefix, result>>

----------------------------------------------------------------------------
(* Texts *)

NA == <<"NaN">>

Empty == << >>

LF == "LF"

Digits == <<"0", "1", "2", "3", "4", "5", "6", "7", "8", "9">>

\* The characters \d matches in a str pattern, with the value int() gives each.
DigitValue(c) ==
    CASE c = "0" -> 0 [] c = "1" -> 1 [] c = "2" -> 2 [] c = "3" -> 3
      [] c = "4" -> 4 [] c = "5" -> 5 [] c = "6" -> 6 [] c = "7" -> 7
      [] c = "8" -> 8 [] c = "9" -> 9 [] c = "U0663" -> 3 [] OTHER -> -1

IsDigit(c) == DigitValue(c) >= 0

AllDigits(s) == \A i \in 1..Len(s) : IsDigit(s[i])

\* int(text) of a text of digits
RECURSIVE IntOf(_)
IntOf(s) ==
    IF s = << >> THEN 0
    ELSE 10 * IntOf(SubSeq(s, 1, Len(s) - 1)) + DigitValue(s[Len(s)])

\* str(n), n >= 0
RECURSIVE Decimal(_)
Decimal(n) ==
    IF n < 10 THEN <<Digits[n + 1]>>
    ELSE Decimal(n \div 10) \o <<Digits[(n % 10) + 1]>>

RECURSIVE ZeroPad(_, _)
ZeroPad(s, width) == IF Len(s) >= width THEN s ELSE ZeroPad(<<"0">> \o s, width)

\* Series.astype(str) on a cell, str() on a value: NaN is rendered "nan"
AsStr(x) == IF x = NA THEN <<"n", "a", "n">> ELSE x

Max(S) == CHOOSE m \in S : \A n \in S : n <= m

----------------------------------------------------------------------------
(* next_id *)

IdWidth == 4

\* pat = ^prefix_(\d+)$ with pat.match(x): re.escape makes the prefix literal;
\* $ matches at the end and before a line feed that ends the text.
PatMatch(p, x) ==
    LET body == IF Len(x) > 0 /\ x[Len(x)] = LF THEN SubSeq(x, 1, Len(x) - 1) ELSE x
        n    == Len(p)
    IN /\ Len(body) >= n + 2
       /\ SubSeq(body, 1, n) = p
       /\ body[n + 1] = "_"
       /\ AllDigits(SubSeq(body, n + 2, Len(body)))

\* m.group(1)
PatGroup(p, x) ==
    LET body == IF x[Len(x)] = LF THEN SubSeq(x, 1, Len(x) - 1) ELSE x
    IN SubSeq(body, Len(p) + 2, Len(body))

\* next_id with a fault: the first free number is taken from the count of matches
next_id_count(existing_ids, p) ==
    LET strs == {AsStr(x) : x \in existing_ids \ {NA}}
        nums == {IntOf(PatGroup(p, x)) : x \in {y \in strs : PatMatch(p, y)}}
    IN p \o <<"_">> \o ZeroPad(Decimal(Cardinality(nums) + 1), IdWidth)

\* existing_ids is the set of values of the Series: next_id reads no order or count
next_id(existing_ids, p) ==
    LET strs == {AsStr(x) : x \in existing_ids \ {NA}}
        nums == {IntOf(PatGroup(p, x)) : x \in {y \in strs : PatMatch(p, y)}}
        nxt  == IF nums # {} THEN Max(nums) + 1 ELSE 1
    IN p \o <<"_">> \o ZeroPad(Decimal(nxt), IdWidth)

EVT == <<"E", "V", "T">>
LNK == <<"L", "N", "K">>
REC == <<"R", "E", "C">>

Id(p, ds) == p \o <<"_">> \o ds


----------------------------------------------------------------------------
(* Harness of next_id: the function applied to a column of identifiers,    *)
(* and the minted identifier appended to the column, as add_event and      *)
(* add_impact_link do (row[ID_COL] = next_id(df[ID_COL], ...); concat).    *)

MaxIds == 3
MaxMint == 2

IdPool ==
    { Id(EVT, <<"0", "0", "0", "1">>),
      Id(EVT, <<"0", "0", "0", "2">>),
      Id(EVT, <<"7">>),
      Id(EVT, <<"0", "0", "0", "1", "2">>),
      Id(EVT, <<"9", "9", "9", "9">>),
      Id(EVT, <<"1", "2", "3", "4", "5">>),
      Id(EVT, << >>),
      Id(EVT, <<"1", "2", "a">>),
      EVT \o <<"0", "0", "0", "3">>,
      <<"X">> \o Id(EVT, <<"0", "0", "0", "5">>),
      Id(EVT, <<"0", "0", "0", "6">>) \o <<LF>>,
      Id(EVT, <<"0", "0", "0", "6", "x">>) \o <<LF>>,
      Id(EVT, <<"U0663">>),
      Id(LNK, <<"0", "0", "0", "4">>),
      Id(REC, <<"0", "0", "1", "0">>),
      NA }

Prefixes == {EVT, LNK, REC}

NoTable == [columns |-> {}, rows |-> << >>]
NoFile == [exists |-> FALSE, columns |-> {}, rows |-> << >>]

\* the variables of main, at rest
MainAtRest ==
    /\ raw = NoFile /\ outFile = NoFile /\ out0 = NoFile /\ outDir = FALSE
    /\ cols = {} /\ df = NoTable
    /\ event_code_to_id = {} /\ existing_link_keys = {}
    /\ exitCode = -1 /\ run = 1 /\ log = << >> /\ firstRun = << >>

InitNextId ==
    /\ MainAtRest
    /\ pc = "idle"
    /\ li = 0
    /\ ids \in {S \in SUBSET IdPool : Cardinality(S) <= MaxIds}
    /\ prefix \in Prefixes
    /\ result = NA

CallNextId ==
    /\ pc = "idle"
    /\ result' = next_id(ids, prefix)
    /\ pc' = "minted"
    /\ UNCHANGED <<ids, prefix, li>>
    /\ UNCHANGED mainVars

AppendMinted ==
    /\ pc = "minted"
    /\ li < MaxMint
    /\ ids' = ids \cup {result}
    /\ li' = li + 1
    /\ pc' = "idle"
    /\ UNCHANGED <<prefix, result>>
    /\ UNCHANGED mainVars

NextNextId == CallNextId \/ AppendMinted

SpecNextId == InitNextId /\ [][NextNextId]_vars

\* x is p, an underscore and one or more ASCII digits, and nothing else
WellFormed(p, x) ==
    /\ x # NA
    /\ Len(x) >= Len(p) + 2
    /\ LET ds == SubSeq(x, Len(p) + 2, Len(x))
       IN /\ x = Id(p, ds)
          /\ \A i \in 1..Len(ds) : \E d \in 1..10 : ds[i] = Digits[d]

\* x is p, an underscore, one or more decimal digits, and then nothing or one
\* line feed
Numbered(p, x) ==
    /\ x # NA
    /\ \E k \in (Len(p) + 2)..Len(x) :
          LET ds == SubSeq(x, Len(p) + 2, k)
          IN /\ \A i \in 1..Len(ds) : IsDigit(ds[i])
             /\ (x = Id(p, ds) \/ x = Id(p, ds) \o <<LF>>)

\* the number x carries after p and the underscore
NumberOf(p, x) ==
    LET k == IF x[Len(x)] = LF THEN Len(x) - 1 ELSE Len(x)
    IN IntOf(SubSeq(x, Len(p) + 2, k))

\* the smallest integer >= 1 above every number of nums
FirstAbove(nums) == CHOOSE n \in 1..(IF nums = {} THEN 1 ELSE Max(nums) + 1) :
                        /\ \A m \in nums : m < n
                        /\ n = 1 \/ n - 1 \in nums

\* C1 as stated: the identifier returned is not in S and is P, an underscore
\* and exactly four digits reading N, N being the smallest integer >= 1 above
\* every number of an identifier of S that is P, an underscore and digits.
C1_AsStated ==
    pc = "minted" =>
        /\ result \notin ids
        /\ Len(result) = Len(prefix) + 1 + IdWidth
        /\ WellFormed(prefix, result)
        /\ NumberOf(prefix, result) =
              FirstAbove({NumberOf(prefix, x) : x \in {y \in ids : Numbered(prefix, y)}})

\* C1 (amended): the identifier returned is not in S and is P, an underscore
\* and N in decimal, zero-padded to at least four digits (more than four only
\* without a leading zero), N being the smallest integer >= 1 above every number
\* of an identifier of S that is P, an underscore, one or more decimal digits
\* and at most one closing line feed.
C1_NextIdFresh ==
    pc = "minted" =>
        /\ result \notin ids
        /\ Len(result) >= Len(prefix) + 1 + IdWidth
        /\ Len(result) > Len(prefix) + 1 + IdWidth => result[Len(prefix) + 2] # "0"
        /\ WellFormed(prefix, result)
        /\ NumberOf(prefix, result) =
              FirstAbove({NumberOf(prefix, x) : x \in {y \in ids : Numbered(prefix, y)}})

\* a five-digit identifier was minted from a column that also holds an
\* identifier the pattern rejects
C1_Witness ==
    /\ pc = "minted"
    /\ Len(result) > Len(prefix) + 1 + IdWidth
    /\ \E x \in ids \ {NA} : ~PatMatch(prefix, x)
    /\ \E x \in ids \ {NA} : PatMatch(prefix, x)

----------------------------------------------------------------------------
(* Tables.  A row gives a cell to each modelled column; a column the table *)
(* does not have holds NA in every row.  The other columns that add_event  *)
(* and add_impact_link fill (category, pillar, value_text, fiscal_year,    *)
(* source_*, confidence, evidence_basis, notes, ...) are constants of the  *)
(* catalog that no decision of the run reads; they are left out.           *)

ID_COL == "record_id"
DATE_COL == "observation_date"

COLLECTED_BY == <<"AbbyGailErm">>
COLLECTION_DATE == <<"2", "0", "2", "6", "-", "0", "2", "-", "0", "3">>
PLACEHOLDER == <<"Example_Trainee">>

Columns == {ID_COL, "record_type", "indicator_code", DATE_COL,
            "parent_id", "related_indicator", "collected_by", "collection_date"}

\* mk_base_row: every column of cols set to NA (as is every column left out)
mk_base_row(cs) == [c \in Columns |-> NA]

\* the rows with the columns outside cs blanked
Project(rows, cs, blank) ==
    [i \in 1..Len(rows) |-> [c \in Columns |-> IF c \in cs THEN rows[i][c] ELSE blank]]

----------------------------------------------------------------------------
(* fix_collector_fields *)

\* Series.str.match(r"^\d{4}-\d{2}-\d{2}$") on astype(str): re.match, whose $
\* also matches before a line feed that ends the text
DateMatch(x) ==
    LET s    == AsStr(x)
        body == IF Len(s) > 0 /\ s[Len(s)] = LF THEN SubSeq(s, 1, Len(s) - 1) ELSE s
    IN /\ Len(body) = 10
       /\ AllDigits(SubSeq(body, 1, 4))
       /\ body[5] = "-"
       /\ AllDigits(SubSeq(body, 6, 7))
       /\ body[8] = "-"
       /\ AllDigits(SubSeq(body, 9, 10))

\* fix_collector_fields with a fault: the mask forgets collection_date.isna()
fix_collector_fields_nomask(t) ==
    IF "collected_by" \notin t.columns \/ "collection_date" \notin t.columns
    THEN t
    ELSE [t EXCEPT !.rows =
            [i \in 1..Len(t.rows) |->
                IF DateMatch(t.rows[i]["collected_by"])
                THEN [t.rows[i] EXCEPT !["collection_date"] = t.rows[i]["collected_by"],
                                       !["collected_by"] = PLACEHOLDER]
                ELSE t.rows[i]]]

fix_collector_fields(t) ==
    IF "collected_by" \notin t.columns \/ "collection_date" \notin t.columns
    THEN t
    ELSE LET mask == [i \in 1..Len(t.rows) |->
                        /\ DateMatch(t.rows[i]["collected_by"])
                        /\ t.rows[i]["collection_date"] = NA]
         IN [t EXCEPT !.rows =
                [i \in 1..Len(t.rows) |->
                    IF mask[i]
                    THEN [t.rows[i] EXCEPT !["collection_date"] = t.rows[i]["collected_by"],
                                           !["collected_by"] = PLACEHOLDER]
                    ELSE t.rows[i]]]

(* Harness of fix_collector_fields: the function applied to a table, twice. *)

MaxFixRows == 2
MaxFixCalls == 2

ADate == <<"2", "0", "2", "4", "-", "0", "1", "-", "1", "5">>

CollectedByPool ==
    { NA,
      ADate,
      ADate \o <<LF>>,
      <<"2", "0", "2", "4", "-", "1", "-", "1", "5">>,
      ADate \o <<"0">>,
      <<"2", "0", "2", "4", "/", "0", "1", "/", "1", "5">>,
      <<"U0663", "0", "2", "4", "-", "0", "1", "-", "1", "5">>,
      <<"x">> \o ADate,
      <<"n", "a", "n">>,
      COLLECTED_BY }

CollectionDatePool == {NA, <<"2", "0", "2", "5", "-", "0", "5", "-", "0", "5">>}

FixRowPool ==
    { [mk_base_row(Columns) EXCEPT ![ID_COL] = Id(REC, <<"0", "0", "0", "1">>),
                                   !["record_type"] = <<"observation">>,
                                   !["collected_by"] = cb,
                                   !["collection_date"] = cd]
        : cb \in CollectedByPool, cd \in CollectionDatePool }

FixColumnSets ==
    { Columns, Columns \ {"collected_by"}, Columns \ {"collection_date"},
      Columns \ {"collected_by", "collection_date"} }

SeqsUpTo(S, n) == UNION {[1..k -> S] : k \in 0..n}

InitFix ==
    /\ raw = NoFile /\ outFile = NoFile /\ out0 = NoFile /\ outDir = FALSE
    /\ cols = {}
    /\ event_code_to_id = {} /\ existing_link_keys = {}
    /\ exitCode = -1 /\ run = 1 /\ firstRun = << >>
    /\ ids = {} /\ prefix = EVT /\ result = NA
    /\ pc = "fix_idle"
    /\ li = 0
    /\ log = << >>
    /\ \E cs \in FixColumnSets, rows \in SeqsUpTo(FixRowPool, MaxFixRows) :
          df = [columns |-> cs, rows |-> Project(rows, cs, NA)]

CallFix ==
    /\ pc \in {"fix_idle", "fixed"}
    /\ li < MaxFixCalls
    /\ log' = <<df>>
    /\ df' = fix_collector_fields(df)
    /\ li' = li + 1
    /\ pc' = "fixed"
    /\ UNCHANGED <<raw, outFile, out0, outDir, cols, event_code_to_id,
                   existing_link_keys, exitCode, run, firstRun>>
    /\ UNCHANGED idVars

NextFix == CallFix

SpecFix == InitFix /\ [][NextFix]_vars

\* x is four digits, a hyphen, two digits, a hyphen and two digits (and at most
\* the line feed that $ lets through)
DatePattern(x) ==
    /\ x # NA
    /\ LET n == IF Len(x) > 0 /\ x[Len(x)] = LF THEN Len(x) - 1 ELSE Len(x)
       IN /\ n = 10
          /\ \A i \in 1..10 : IF i \in {5, 8} THEN x[i] = "-" ELSE IsDigit(x[i])

\* C3: fix_collector_fields keeps the row count and the columns, and alters a
\* row only when its collected_by matches the date pattern and its
\* collection_date is null at once; such a row (of a table that has both
\* columns) gets the old collected_by as collection_date and the placeholder
\* as collected_by, every other cell kept; every other row is kept whole.
C3_FixFrame ==
    pc = "fixed" =>
        LET before == log[1]
        IN /\ Len(df.rows) = Len(before.rows)
           /\ df.columns = before.columns
           /\ \A i \in 1..Len(before.rows) :
                LET b == before.rows[i]
                    a == df.rows[i]
                IN IF /\ {"collected_by", "collection_date"} \subseteq before.columns
                      /\ DatePattern(b["collected_by"])
                      /\ b["collection_date"] = NA
                   THEN /\ a["collection_date"] = b["collected_by"]
                        /\ a["collected_by"] = PLACEHOLDER
                        /\ \A c \in Columns \ {"collected_by", "collection_date"} :
                              a[c] = b[c]
                   ELSE a = b

\* one row was corrected while a row whose collected_by is a date but whose
\* collection_date is set was kept
C3_Witness ==
    /\ pc = "fixed"
    /\ li = 1
    /\ \E i \in 1..Len(df.rows) : df.rows[i] # log[1].rows[i]
    /\ \E i \in 1..Len(df.rows) :
          /\ DatePattern(log[1].rows[i]["collected_by"])
          /\ log[1].rows[i]["collection_date"] # NA
          /\ df.rows[i] = log[1].rows[i]

----------------------------------------------------------------------------
(* The CSV files *)

\* the cell texts pandas.read_csv reads as missing (its default na_values, in part)
NaTexts == {Empty, <<"n", "a", "n">>, <<"N", "A">>}

\* pd.read_csv(RAW_PATH)
read_csv(f) ==
    [columns |-> f.columns,
     rows    |-> [i \in 1..Len(f.rows) |->
                    [c \in Columns |-> IF f.rows[i][c] \in NaTexts THEN NA
                                       ELSE f.rows[i][c]]]]

\* df.to_csv(OUT_PATH, index=False): a missing value is written as the empty text
to_csv(t) ==
    [exists  |-> TRUE,
     columns |-> t.columns,
     rows    |-> [i \in 1..Len(t.rows) |->
                    [c \in Columns |-> IF t.rows[i][c] = NA THEN Empty ELSE t.rows[i][c]]]]

----------------------------------------------------------------------------
(* add_event, add_impact_link *)

EVENT == <<"event">>
IMPACT_LINK == <<"impact_link">>

\* df[ID_COL]
IdColumn(t) == {t.rows[i][ID_COL] : i \in 1..Len(t.rows)}

\* the columns of the modelled ones that add_event assigns
EventColumns == {ID_COL, "record_type", "indicator_code", DATE_COL,
                 "collected_by", "collection_date"}

\* the columns of the modelled ones that add_impact_link assigns
LinkColumns == {ID_COL, "record_type", "parent_id", "related_indicator",
                "collected_by", "collection_date"}

\* pd.concat([df, pd.DataFrame([row])], ignore_index=True)
Concat(t, row, keys) ==
    [columns |-> t.columns \cup keys, rows |-> Append(t.rows, row)]

\* add_event with a fault: the identifier is minted from the table as read,
\* not from the table as it stands
add_event_stale(t, cs, indicator_code, event_date) ==
    LET row == [mk_base_row(cs) EXCEPT
                   ![ID_COL] = next_id(IdColumn(read_csv(raw)), EVT),
                   !["record_type"] = EVENT,
                   !["indicator_code"] = indicator_code,
                   ![DATE_COL] = event_date,
                   !["collected_by"] = COLLECTED_BY,
                   !["collection_date"] = COLLECTION_DATE]
    IN [df |-> Concat(t, row, cs \cup EventColumns), row |-> row]

add_event(t, cs, indicator_code, event_date) ==
    LET row == [mk_base_row(cs) EXCEPT
                   ![ID_COL] = next_id(IdColumn(t), EVT),
                   !["record_type"] = EVENT,
                   !["indicator_code"] = indicator_code,
                   ![DATE_COL] = event_date,
                   !["collected_by"] = COLLECTED_BY,
                   !["collection_date"] = COLLECTION_DATE]
    IN [df |-> Concat(t, row, cs \cup EventColumns), row |-> row]

\* add_impact_link with a fault: parent_id is given the link's own identifier
add_impact_link_self(t, cs, parent_id, related_indicator) ==
    LET row == [mk_base_row(cs) EXCEPT
                   ![ID_COL] = next_id(IdColumn(t), LNK),
                   !["record_type"] = IMPACT_LINK,
                   !["parent_id"] = next_id(IdColumn(t), LNK),
                   !["related_indicator"] = related_indicator,
                   !["collected_by"] = COLLECTED_BY,
                   !["collection_date"] = COLLECTION_DATE]
    IN [df |-> Concat(t, row, cs \cup LinkColumns), row |-> row]

add_impact_link(t, cs, parent_id, related_indicator) ==
    LET row == [mk_base_row(cs) EXCEPT
                   ![ID_COL] = next_id(IdColumn(t), LNK),
                   !["record_type"] = IMPACT_LINK,
                   !["parent_id"] = parent_id,
                   !["related_indicator"] = related_indicator,
                   !["collected_by"] = COLLECTED_BY,
                   !["collection_date"] = COLLECTION_DATE]
    IN [df |-> Concat(t, row, cs \cup LinkColumns), row |-> row]

----------------------------------------------------------------------------
(* main *)

\* Required with a fault: the record-type column is not asked for
Required_short == {ID_COL, "indicator_code", DATE_COL}

Required == {ID_COL, "record_type", "indicator_code", DATE_COL}

EVT_INTEROP_CROSSOVER == <<"EVT_INTEROP_CROSSOVER">>
EVT_FAYDA_ROLLOUT == <<"EVT_FAYDA_ROLLOUT">>
EVT_TELEBIRR == <<"EVT_TELEBIRR">>
EVT_SAFARICOM == <<"EVT_SAFARICOM">>

\* the events main adds when absent, in order
EventCatalog ==
    << [indicator_code |-> EVT_INTEROP_CROSSOVER,
        event_date |-> <<"2", "0", "2", "4", "-", "0", "1", "-", "0", "1">>],
       [indicator_code |-> EVT_FAYDA_ROLLOUT,
        event_date |-> <<"2", "0", "2", "3", "-", "0", "1", "-", "0", "1">>] >>

\* the calls of maybe_add_link, in order
LinkCatalog ==
    << [parent_event_code |-> EVT_TELEBIRR, related_indicator |-> <<"ACC_MM_ACCOUNT">>],
       [parent_event_code |-> EVT_TELEBIRR, related_indicator |-> <<"USG_DIGITAL_PAYMENT">>],
       [parent_event_code |-> EVT_SAFARICOM, related_indicator |-> <<"USG_MPESA_USERS">>],
       [parent_event_code |-> EVT_INTEROP_CROSSOVER,
        related_indicator |-> <<"USG_DIGITAL_PAYMENT">>],
       [parent_event_code |-> EVT_FAYDA_ROLLOUT, related_indicator |-> <<"ACC_OWNERSHIP">>] >>

\* the rows of df[df["record_type"].eq("event")] that survive
\* dropna(subset=["indicator_code"]), as indices
EventIndices(t) ==
    {i \in 1..Len(t.rows) : t.rows[i]["record_type"] = EVENT
                            /\ t.rows[i]["indicator_code"] # NA}

\* EventLookup with a fault: only the rows of the input are looked up
EventLookup_input_rows(t) ==
    LET idx == {i \in EventIndices(t) : i <= Len(raw.rows)}
    IN [c \in {t.rows[i]["indicator_code"] : i \in idx} |->
           t.rows[Max({i \in idx : t.rows[i]["indicator_code"] = c})][ID_COL]]

\* EventLookup with a fault: every row is looked up, not only the event rows
EventLookup_all_rows(t) ==
    LET idx == {i \in 1..Len(t.rows) : t.rows[i]["indicator_code"] # NA}
    IN [c \in {t.rows[i]["indicator_code"] : i \in idx} |->
           t.rows[Max({i \in idx : t.rows[i]["indicator_code"] = c})][ID_COL]]

\* events[[ID_COL, "indicator_code"]].dropna(...).set_index("indicator_code")[ID_COL]
\* .to_dict(): a code that several event rows carry keeps the last row's identifier
EventLookup(t) ==
    LET idx == EventIndices(t)
    IN [c \in {t.rows[i]["indicator_code"] : i \in idx} |->
           t.rows[Max({i \in idx : t.rows[i]["indicator_code"] = c})][ID_COL]]

\* LinkKeys with a fault: the keys are read from record_id, not parent_id
LinkKeys_record_id(t) ==
    IF "parent_id" \notin t.columns \/ "related_indicator" \notin t.columns
    THEN {}
    ELSE {<<AsStr(t.rows[i][ID_COL]), AsStr(t.rows[i]["related_indicator"])>> :
             i \in {j \in 1..Len(t.rows) : t.rows[j]["record_type"] = IMPACT_LINK}}

\* set(zip(existing_links.get("parent_id", empty).astype(str),
\*         existing_links.get("related_indicator", empty).astype(str)))
LinkKeys(t) ==
    IF "parent_id" \notin t.columns \/ "related_indicator" \notin t.columns
    THEN {}
    ELSE {<<AsStr(t.rows[i]["parent_id"]), AsStr(t.rows[i]["related_indicator"])>> :
             i \in {j \in 1..Len(t.rows) : t.rows[j]["record_type"] = IMPACT_LINK}}

\* maybe_add_link with a fault: the parent code is not looked up before use
maybe_add_link_unchecked(t, cs, lookup, keys, cand) ==
    LET pid == IF cand.parent_event_code \in DOMAIN lookup
               THEN lookup[cand.parent_event_code] ELSE NA
        key == <<AsStr(pid), AsStr(cand.related_indicator)>>
    IN IF key \in keys THEN t
       ELSE add_impact_link(t, cs, pid, cand.related_indicator).df

\* maybe_add_link: the table after the call
maybe_add_link(t, cs, lookup, keys, cand) ==
    IF cand.parent_event_code \notin DOMAIN lookup THEN t
    ELSE LET pid == lookup[cand.parent_event_code]
             key == <<AsStr(pid), AsStr(cand.related_indicator)>>
         IN IF key \in keys THEN t
            ELSE add_impact_link(t, cs, pid, cand.related_indicator).df

----------------------------------------------------------------------------
(* The input files of the run *)

MaxRows == 2

BlankRow == [c \in Columns |-> Empty]

EventRow(id, code) ==
    [BlankRow EXCEPT ![ID_COL] = id, !["record_type"] = EVENT,
                     !["indicator_code"] = code, ![DATE_COL] = ADate]

LinkRow(id, parent, related) ==
    [BlankRow EXCEPT ![ID_COL] = id, !["record_type"] = IMPACT_LINK,
                     !["parent_id"] = parent, !["related_indicator"] = related]

ObservationRow(id, code, by) ==
    [BlankRow EXCEPT ![ID_COL] = id, !["record_type"] = <<"observation">>,
                     !["indicator_code"] = code, ![DATE_COL] = ADate,
                     !["collected_by"] = by]

\* rows of a CSV file: events with the candidates' codes and the codes the links
\* depend on (two of them sharing an identifier, one without identifier), links
\* that carry candidates' keys (one without parent, written nan), and rows that
\* are no event but carry an event's code or an EVT identifier
RowPool ==
    { EventRow(Id(EVT, <<"0", "0", "0", "1">>), EVT_TELEBIRR),
      EventRow(Id(EVT, <<"0", "0", "0", "1">>), EVT_INTEROP_CROSSOVER),
      EventRow(Id(EVT, <<"0", "0", "0", "2">>), EVT_FAYDA_ROLLOUT),
      EventRow(Empty, EVT_SAFARICOM),
      EventRow(Id(EVT, <<"0", "0", "0", "3">>), Empty),
      ObservationRow(Id(REC, <<"0", "0", "0", "1">>), EVT_FAYDA_ROLLOUT, ADate),
      ObservationRow(Id(EVT, <<"9", "9", "9", "9">>), <<"ACC_OWNERSHIP">>, Empty),
      LinkRow(Id(LNK, <<"0", "0", "0", "1">>), Id(EVT, <<"0", "0", "0", "1">>),
              <<"USG_DIGITAL_PAYMENT">>),
      LinkRow(Id(LNK, <<"0", "0", "0", "2">>), Id(EVT, <<"0", "0", "0", "2">>),
              <<"ACC_OWNERSHIP">>),
      LinkRow(Id(LNK, <<"7">>), <<"n", "a", "n">>, <<"USG_MPESA_USERS">>) }

\* the column sets of the input: all, one required column missing, and the
\* optional columns missing
ColumnSets ==
    {Columns} \cup {Columns \ {c} : c \in {ID_COL, "record_type", "indicator_code",
                                             DATE_COL}}
      \cup { Columns \ {"parent_id", "related_indicator"},
             Columns \ {"parent_id"},
             Columns \ {"collected_by", "collection_date"} }

\* a file left at OUT_PATH by an earlier run
StaleOut ==
    [exists |-> TRUE, columns |-> Columns,
     rows |-> <<ObservationRow(Id(REC, <<"0", "0", "0", "1">>), Empty, Empty)>>]

Init ==
    /\ pc = "start"
    /\ raw \in {NoFile} \cup
               { [exists |-> TRUE, columns |-> cs, rows |-> Project(rows, cs, Empty)] :
                    cs \in ColumnSets, rows \in SeqsUpTo(RowPool, MaxRows) }
    /\ outFile \in {NoFile, StaleOut}
    /\ out0 = outFile
    /\ outDir = outFile.exists
    /\ cols = {} /\ df = NoTable
    /\ event_code_to_id = << >> /\ existing_link_keys = {}
    /\ li = 0 /\ exitCode = -1 /\ run = 1 /\ log = << >> /\ firstRun = << >>
    /\ ids = {} /\ prefix = EVT /\ result = NA

\* lines 142-146: ensure_dirs, and the input file looked for
Start ==
    /\ pc = "start"
    /\ outDir' = TRUE
    /\ IF ~raw.exists
       THEN exitCode' = 2 /\ pc' = "done"
       ELSE exitCode' = exitCode /\ pc' = "read"
    /\ UNCHANGED <<raw, outFile, out0, cols, df, event_code_to_id, existing_link_keys,
                   li, run, log, firstRun>>
    /\ UNCHANGED idVars

\* lines 148-154: the table read and the required columns looked for
ReadCsv ==
    /\ pc = "read"
    /\ df' = read_csv(raw)
    /\ cols' = raw.columns
    /\ IF Required \subseteq raw.columns
       THEN exitCode' = exitCode /\ pc' = "fix"
       ELSE exitCode' = 2 /\ pc' = "done"
    /\ UNCHANGED <<raw, outFile, out0, outDir, event_code_to_id, existing_link_keys,
                   li, run, log, firstRun>>
    /\ UNCHANGED idVars

\* line 156
Fix ==
    /\ pc = "fix"
    /\ df' = fix_collector_fields(df)
    /\ log' = Append(log, [op |-> "fix", k |-> 0, row |-> 0])
    /\ pc' = "lookup"
    /\ UNCHANGED <<raw, outFile, out0, outDir, cols, event_code_to_id,
                   existing_link_keys, li, exitCode, run, firstRun>>
    /\ UNCHANGED idVars

\* lines 158-165
BuildLookup ==
    /\ pc = "lookup"
    /\ event_code_to_id' = EventLookup(df)
    /\ li' = 0
    /\ pc' = "event"
    /\ UNCHANGED <<raw, outFile, out0, outDir, cols, df, existing_link_keys,
                   exitCode, run, log, firstRun>>
    /\ UNCHANGED idVars

\* lines 167-182 (li = 0) and 184-198 (li = 1): an event added if its code is
\* not looked up, and its identifier registered
AddEvent ==
    /\ pc = "event"
    /\ LET cand == EventCatalog[li + 1]
           r    == add_event(df, cols, cand.indicator_code, cand.event_date)
       IN IF cand.indicator_code \notin DOMAIN event_code_to_id
          THEN /\ df' = r.df
               /\ event_code_to_id' =
                     [c \in DOMAIN event_code_to_id \cup {cand.indicator_code} |->
                         IF c = cand.indicator_code THEN r.row[ID_COL]
                         ELSE event_code_to_id[c]]
               /\ log' = Append(log, [op |-> "event", k |-> li + 1, row |-> Len(r.df.rows)])
          ELSE UNCHANGED <<df, event_code_to_id, log>>
    /\ IF li + 1 = Len(EventCatalog)
       THEN li' = 0 /\ pc' = "refresh"
       ELSE li' = li + 1 /\ pc' = pc
    /\ UNCHANGED <<raw, outFile, out0, outDir, cols, existing_link_keys,
                   exitCode, run, firstRun>>
    /\ UNCHANGED idVars

\* lines 200-216: the lookup refreshed, the keys of the links in the table
Refresh ==
    /\ pc = "refresh"
    /\ event_code_to_id' = EventLookup(df)
    /\ existing_link_keys' = LinkKeys(df)
    /\ pc' = "link"
    /\ UNCHANGED <<raw, outFile, out0, outDir, cols, df, li, exitCode, run, log,
                   firstRun>>
    /\ UNCHANGED idVars

\* lines 245-269: the call li + 1 of maybe_add_link (lines 218-243); the call
\* leaves existing_link_keys as it is
MaybeAddLink ==
    /\ pc = "link"
    /\ df' = maybe_add_link(df, cols, event_code_to_id, existing_link_keys,
                            LinkCatalog[li + 1])
    /\ log' = IF df' # df
              THEN Append(log, [op |-> "link", k |-> li + 1, row |-> Len(df'.rows)])
              ELSE log
    /\ IF li + 1 = Len(LinkCatalog)
       THEN li' = 0 /\ pc' = "write"
       ELSE li' = li + 1 /\ pc' = pc
    /\ UNCHANGED <<raw, outFile, out0, outDir, cols, event_code_to_id,
                   existing_link_keys, exitCode, run, firstRun>>
    /\ UNCHANGED idVars

\* lines 271-277
WriteCsv ==
    /\ pc = "write"
    /\ outFile' = to_csv(df)
    /\ exitCode' = 0
    /\ pc' = "done"
    /\ UNCHANGED <<raw, out0, outDir, cols, df, event_code_to_id, existing_link_keys,
                   li, run, log, firstRun>>
    /\ UNCHANGED idVars

\* the output of the first run given to a second run as its input
Rerun ==
    /\ pc = "done"
    /\ exitCode = 0
    /\ run = 1
    /\ raw' = outFile
    /\ out0' = outFile
    /\ run' = 2
    /\ firstRun' = <<[log |-> log, input |-> raw, output |-> outFile]>>
    /\ pc' = "start"
    /\ cols' = {} /\ df' = NoTable
    /\ event_code_to_id' = << >> /\ existing_link_keys' = {}
    /\ li' = 0 /\ exitCode' = -1 /\ log' = << >>
    /\ UNCHANGED <<outFile, outDir>>
    /\ UNCHANGED idVars

Next ==
    \/ Start \/ ReadCsv \/ Fix \/ BuildLookup \/ AddEvent \/ Refresh
    \/ MaybeAddLink \/ WriteCsv \/ Rerun

Spec == Init /\ [][Next]_vars

----------------------------------------------------------------------------
(* Properties of the run *)

\* the table has been read
Loaded == pc \notin {"start", "read"}

\* the run ended with the output written
Succeeded == pc = "done" /\ exitCode = 0

\* the table the run read
Input == read_csv(raw)

InputRows == Len(raw.rows)

EventCodes(t) ==
    {t.rows[i]["indicator_code"] :
        i \in {j \in 1..Len(t.rows) : t.rows[j]["record_type"] = EVENT}}

\* the rows this run appended, as indices of df
AppendedRows == (InputRows + 1)..Len(df.rows)

AppendedOfType(type) == {i \in AppendedRows : df.rows[i]["record_type"] = type}

LogOf(op) == {i \in 1..Len(log) : log[i].op = op}

Pair(row) == <<row["parent_id"], row["related_indicator"]>>

DistinctIds(t) ==
    \A i, j \in 1..Len(t.rows) : i # j => t.rows[i][ID_COL] # t.rows[j][ID_COL]

\* C2: the run on the first run's output appends no event row and no
\* impact_link row, and its output has as many rows as the first output.
C2_Idempotent ==
    run = 2 =>
        /\ LogOf("event") = {} /\ LogOf("link") = {}
        /\ Loaded => Len(df.rows) = Len(firstRun[1].output.rows)
        /\ pc = "done" =>
              /\ exitCode = 0
              /\ Len(outFile.rows) = Len(firstRun[1].output.rows)

\* a second run ended on the output of a first run that had appended an event
\* and a link and had found a link of a candidate's key in its input
C2_Witness ==
    /\ run = 2
    /\ pc = "done"
    /\ \E i \in 1..Len(firstRun[1].log) : firstRun[1].log[i].op = "event"
    /\ \E i \in 1..Len(firstRun[1].log) : firstRun[1].log[i].op = "link"
    /\ \E i \in 1..Len(firstRun[1].input.rows) :
          firstRun[1].input.rows[i]["record_type"] = IMPACT_LINK

\* C4: a link candidate whose parent event code is carried by no event row of
\* the table is not appended, whatever the de-duplication set holds: every link
\* the run appended has its parent code on an event row, and the run appended
\* one whole row per addition and nothing else.
C4_NoOrphanLink ==
    Loaded =>
        /\ \A i \in LogOf("link") :
              LinkCatalog[log[i].k].parent_event_code \in EventCodes(df)
        /\ Len(df.rows) = InputRows + Cardinality(LogOf("event") \cup LogOf("link"))
        /\ Cardinality(AppendedOfType(IMPACT_LINK)) = Cardinality(LogOf("link"))

\* a run ended that skipped the links of EVT_TELEBIRR, which no event row
\* carries, appended another link, and had a de-duplication set that is not empty
C4_Witness ==
    /\ Succeeded
    /\ run = 1
    /\ EVT_TELEBIRR \notin EventCodes(df)
    /\ existing_link_keys # {}
    /\ LogOf("link") # {}

\* C5 (scenario A): on an input with no event row and no impact_link row the
\* run appends four rows: the events EVT_INTEROP_CROSSOVER and
\* EVT_FAYDA_ROLLOUT, then the link of each to its related indicator; no link
\* of EVT_TELEBIRR or EVT_SAFARICOM.
C5_ScenarioA ==
    (/\ Succeeded
     /\ \A i \in 1..InputRows : Input.rows[i]["record_type"] \notin {EVENT, IMPACT_LINK})
    =>
        /\ Len(df.rows) = InputRows + 4
        /\ Len(outFile.rows) = InputRows + 4
        /\ LET e1 == df.rows[InputRows + 1]
               e2 == df.rows[InputRows + 2]
               l1 == df.rows[InputRows + 3]
               l2 == df.rows[InputRows + 4]
           IN /\ e1["record_type"] = EVENT
              /\ e1["indicator_code"] = EVT_INTEROP_CROSSOVER
              /\ e2["record_type"] = EVENT
              /\ e2["indicator_code"] = EVT_FAYDA_ROLLOUT
              /\ l1["record_type"] = IMPACT_LINK
              /\ Pair(l1) = <<e1[ID_COL], <<"USG_DIGITAL_PAYMENT">>>>
              /\ l2["record_type"] = IMPACT_LINK
              /\ Pair(l2) = <<e2[ID_COL], <<"ACC_OWNERSHIP">>>>
        /\ {log[i].k : i \in LogOf("link")} = {4, 5}

\* a run ended on an input of rows that are neither events nor links, one of
\* them carrying an event's code
C5_Witness ==
    /\ Succeeded
    /\ run = 1
    /\ InputRows >= 2
    /\ \A i \in 1..InputRows : Input.rows[i]["record_type"] \notin {EVENT, IMPACT_LINK}
    /\ \E i \in 1..InputRows : Input.rows[i]["indicator_code"] = EVT_FAYDA_ROLLOUT

\* C6: once the event phase is over, the run has appended exactly one event
\* row for each candidate code that no event row of the input carries, and
\* none for a code that one carries.
C6_EventIffAbsent ==
    (Loaded /\ pc \notin {"fix", "lookup", "event"} /\ exitCode # 2) =>
        \A k \in 1..Len(EventCatalog) :
            LET code == EventCatalog[k].indicator_code
                n    == Cardinality({i \in AppendedOfType(EVENT) :
                                        df.rows[i]["indicator_code"] = code})
            IN n = IF code \in EventCodes(Input) THEN 0 ELSE 1

\* a run ended whose input had an event EVT_FAYDA_ROLLOUT and no event
\* EVT_INTEROP_CROSSOVER: it appended one event
C6_Witness ==
    /\ Succeeded
    /\ run = 1
    /\ EVT_FAYDA_ROLLOUT \in EventCodes(Input)
    /\ EVT_INTEROP_CROSSOVER \notin EventCodes(Input)
    /\ Cardinality(LogOf("event")) = 1

\* the input file is missing or lacks a required column
Fatal == ~raw.exists \/ ~({"record_id", "record_type", "indicator_code",
                           "observation_date"} \subseteq raw.columns)

\* C7: a run whose input file is missing or lacks a required column never
\* corrects, never inserts and never touches the output file, and ends with
\* exit code 2; every other run ends with exit code 0 and the output written.
C7_FatalBeforeWrite ==
    /\ Fatal => /\ log = << >>
                /\ outFile = out0
                /\ pc \in {"start", "read", "done"}
                /\ df \in {NoTable, Input}
                /\ pc = "done" => exitCode = 2
    /\ ~Fatal /\ pc = "done" =>
                /\ exitCode = 0
                /\ outFile.exists
                /\ Len(outFile.rows) = Len(df.rows)
                /\ read_csv(outFile) = df

\* a run ended with exit code 2 on an input that has rows but no record-type
\* column, an older output file being there
C7_Witness ==
    /\ pc = "done"
    /\ exitCode = 2
    /\ raw.exists
    /\ "record_type" \notin raw.columns
    /\ InputRows > 0
    /\ out0 = StaleOut

\* C8: the identifier of every appended row differs from the identifier of
\* every row before it, so an input of pairwise distinct identifiers gives a
\* table, and an output, of pairwise distinct identifiers.
C8_UniqueIds ==
    Loaded =>
        /\ \A i \in AppendedRows : \A j \in 1..(i - 1) :
              df.rows[i][ID_COL] # df.rows[j][ID_COL]
        /\ DistinctIds(Input) => DistinctIds(df)
        /\ DistinctIds(Input) /\ Succeeded => DistinctIds(outFile)

\* a run ended that appended two events and a link to an input of distinct
\* identifiers, one of them an EVT identifier
C8_Witness ==
    /\ Succeeded
    /\ run = 1
    /\ DistinctIds(Input)
    /\ Cardinality(LogOf("event")) = 2
    /\ LogOf("link") # {}
    /\ \E i \in 1..InputRows : PatMatch(EVT, Input.rows[i][ID_COL])

\* C9 as stated: no two impact_link rows appended by a run share their
\* (parent_id, related_indicator), and none has the pair of an impact_link row
\* of the input (an input that has both columns).
C9_AsStated ==
    Loaded =>
        /\ \A i, j \in AppendedOfType(IMPACT_LINK) :
              i # j => Pair(df.rows[i]) # Pair(df.rows[j])
        /\ {"parent_id", "related_indicator"} \subseteq raw.columns =>
              \A i \in AppendedOfType(IMPACT_LINK) : \A j \in 1..InputRows :
                  df.rows[j]["record_type"] = IMPACT_LINK
                      => Pair(df.rows[i]) # Pair(df.rows[j])

\* C10: links are appended only after the event phase, with the lookup equal
\* to the one the table gives, and every appended link has as parent_id the
\* record_id of an event row of the table whose indicator_code is the parent
\* code of its candidate.
C10_ParentIsEvent ==
    Loaded =>
        /\ \A i \in LogOf("link") :
              /\ \A j \in LogOf("event") : j < i
              /\ \E e \in 1..Len(df.rows) :
                    /\ df.rows[e]["record_type"] = EVENT
                    /\ df.rows[e]["indicator_code"] =
                           LinkCatalog[log[i].k].parent_event_code
                    /\ df.rows[e][ID_COL] = df.rows[log[i].row]["parent_id"]
        /\ pc = "link" => event_code_to_id = EventLookup(df)
        /\ Succeeded =>
              \A i \in LogOf("link") :
                  \E e \in 1..Len(outFile.rows) :
                      /\ outFile.rows[e]["record_type"] = EVENT
                      /\ outFile.rows[e]["indicator_code"] =
                             LinkCatalog[log[i].k].parent_event_code
                      /\ outFile.rows[e][ID_COL] = outFile.rows[log[i].row]["parent_id"]

\* a run ended that appended a link to an event of the input and a link to an
\* event it had appended itself
C10_Witness ==
    /\ Succeeded
    /\ run = 1
    /\ \E i \in LogOf("link") : \E e \in 1..InputRows :
          /\ df.rows[e]["record_type"] = EVENT
          /\ df.rows[e][ID_COL] = df.rows[log[i].row]["parent_id"]
    /\ \E i \in LogOf("link") : \E e \in AppendedOfType(EVENT) :
          df.rows[e][ID_COL] = df.rows[log[i].row]["parent_id"]

=============================================================================
